---- MODULE Spec2Model ----
(***************************************************************************)
(* Model of src/src/model.rs of inno-updater: the uninstall-log header     *)
(* decoder (Header::from_reader), the record decoder                      *)
(* (FileRec::from_reader) and the embedded-string codec                   *)
(* (FileRec::get_string, FileRec::rebase).                                *)
(*                                                                         *)
(* Numbers.  TLC integers are 32-bit signed, so an i32 is an Int, and a    *)
(* u32 is a record [hi, lo] of its two 16-bit halves.  A byte is 0..255.   *)
(* Byte sequences are 1-based TLA+ sequences; stream offsets are 0-based   *)
(* as in the source.                                                       *)
(***************************************************************************)
EXTENDS Integers, Sequences, FiniteSets, TLC

VARIABLES
    stream,     \* the reader's content: [len, bytes]
    pos,        \* the reader's position (0-based offset of the next byte)
    phase,      \* "start" | "header" | "recs" | "panic"
    header,     \* the decoded Header, or NoHeader
    recs,       \* the FileRecs decoded so far, in order
    last,       \* what the last decoder call did (error, start, allocation)
    data,       \* FileRec.data of the record being rebased (a byte sequence)
    call        \* the last rebase call: its arguments, the data before, the outcome

vars == <<stream, pos, phase, header, recs, last, data, call>>

---------------------------------------------------------------------------
(* Bytes and little-endian integers (byteorder::LittleEndian).             *)

\* u32 from its two 16-bit halves
U32(h, l) == [hi |-> h, lo |-> l]

\* LittleEndian::read_u16 of a 2-byte sequence
read_u16(b) == b[1] + 256 * b[2]

\* LittleEndian::read_u32 of a 4-byte sequence
read_u32(b) == U32(b[3] + 256 * b[4], b[1] + 256 * b[2])

\* LittleEndian::read_i32 of a 4-byte sequence (two's complement)
read_i32(b) ==
    b[1] + 256 * b[2] + 65536 * b[3]
        + 16777216 * (IF b[4] >= 128 THEN b[4] - 256 ELSE b[4])

\* LittleEndian::write_i32: the 4 bytes of a (possibly negative) i32
write_i32(n) ==
    << n % 256, (n \div 256) % 256, (n \div 65536) % 256, (n \div 16777216) % 256 >>

\* the 4 bytes of a u32
write_u32(x) == << x.lo % 256, x.lo \div 256, x.hi % 256, x.hi \div 256 >>

\* a > b on u32
U32Gt(a, b) == a.hi > b.hi \/ (a.hi = b.hi /\ a.lo > b.lo)

\* mutant: the cast keeps the low 16 bits only
U32ToInt_Truncated(x) == x.lo

\* `x as usize` of a u32 known to fit a TLC integer (hi < 2^15)
U32ToInt(x) == x.hi * 65536 + x.lo

---------------------------------------------------------------------------
(* CRC-32 (crc::crc32::Digest::new(crc32::IEEE)): reflected, table driven, *)
(* initial value and final xor 0xFFFFFFFF.                                 *)

RECURSIVE XorBits(_, _, _)
XorBits(a, b, n) ==
    IF n = 0 THEN 0
    ELSE (((a % 2) + (b % 2)) % 2) + 2 * XorBits(a \div 2, b \div 2, n - 1)

Xor8Table == [a \in 0..255 |-> [b \in 0..255 |-> XorBits(a, b, 8)]]

Xor16(a, b) ==
    Xor8Table[a % 256][b % 256] + 256 * Xor8Table[a \div 256][b \div 256]

Xor32(x, y) == U32(Xor16(x.hi, y.hi), Xor16(x.lo, y.lo))

Shr1(x) == U32(x.hi \div 2, (x.lo \div 2) + 32768 * (x.hi % 2))

Shr8(x) == U32(x.hi \div 256, (x.lo \div 256) + 256 * (x.hi % 256))

\* crc32::IEEE = 0xEDB88320
IEEE == U32(60856, 33568)

RECURSIVE CrcTableEntry(_, _)
CrcTableEntry(c, k) ==
    IF k = 0 THEN c
    ELSE CrcTableEntry(IF c.lo % 2 = 1 THEN Xor32(Shr1(c), IEEE) ELSE Shr1(c), k - 1)

CrcTable == [i \in 0..255 |-> CrcTableEntry(U32(0, i), 8)]

\* one table step of the digest, for one byte
CrcStep(crc, byte) ==
    Xor32(CrcTable[Xor8Table[crc.lo % 256][byte]], Shr8(crc))

\* the digest after bytes[lo..hi], in order (split in halves to keep the
\* evaluation shallow)
RECURSIVE CrcUpdate(_, _, _, _)
CrcUpdate(crc, bytes, lo, hi) ==
    IF lo > hi THEN crc
    ELSE IF lo = hi THEN CrcStep(crc, bytes[lo])
    ELSE LET mid == (lo + hi) \div 2
             left == CrcUpdate(crc, bytes, lo, mid)
         IN  \* the test makes TLC compute `left` before it goes on
             IF left.hi >= 0 THEN CrcUpdate(left, bytes, mid + 1, hi) ELSE crc

\* digest.write(bytes); digest.sum32()
crc32_sum(bytes) ==
    Xor32(CrcUpdate(U32(65535, 65535), bytes, 1, Len(bytes)), U32(65535, 65535))

---------------------------------------------------------------------------
(* The reader.  A stream is [len, bytes]: len bytes in all, bytes[p] the   *)
(* byte at 0-based offset p.  Offsets outside DOMAIN bytes are record      *)
(* payload, which the decoders copy and never inspect: they read as 0, so  *)
(* that a payload of 2^27 bytes needs no 2^27 entries.                     *)

ByteAt(s, p) == IF p \in DOMAIN s.bytes THEN s.bytes[p] ELSE 0

\* the n bytes at offsets p .. p+n-1, as a sequence
ReadBytes(s, p, n) == [i \in 1..n |-> ByteAt(s, p + i - 1)]

\* whether read_exact of n bytes at offset p finds them all
read_exact_ok(s, p, n) == s.len - p >= n

\* a stream holding exactly the byte sequence b
StreamOf(b) == [len |-> Len(b), bytes |-> [p \in 0..(Len(b) - 1) |-> b[p + 1]]]

\* The position a failed read_exact leaves the reader at.  std::io::Read
\* gives no guarantee about how many bytes a failed read_exact consumed: the
\* reader is a `&mut Read` trait object, so it is anything from p to the end.
ShortReadPositions(s, p) == {p, s.len}

---------------------------------------------------------------------------
(* HEADER                                                                  *)

HEADER_SIZE == 448

\* "Inno Setup Uninstall Log (b)"
HEADER_ID_32 ==
    << 73, 110, 110, 111, 32, 83, 101, 116, 117, 112, 32, 85, 110, 105, 110,
       115, 116, 97, 108, 108, 32, 76, 111, 103, 32, 40, 98, 41 >>

\* "Inno Setup Uninstall Log (b) 64-bit"
HEADER_ID_64 ==
    << 73, 110, 110, 111, 32, 83, 101, 116, 117, 112, 32, 85, 110, 105, 110,
       115, 116, 97, 108, 108, 32, 76, 111, 103, 32, 40, 98, 41, 32, 54, 52,
       45, 98, 105, 116 >>

\* mutant: the version bound off by one
HIGHEST_SUPPORTED_VERSION_OffByOne == 1048 + 1

HIGHEST_SUPPORTED_VERSION == 1048

NoHeader == << >>

\* the length of b without its trailing NUL bytes
TrimmedLen(b) ==
    IF \A i \in 1..Len(b) : b[i] = 0 THEN 0
    ELSE CHOOSE i \in 1..Len(b) : b[i] # 0 /\ \A j \in (i + 1)..Len(b) : b[j] = 0

\* strings::read_utf8_string(reader, capacity): a fixed-width text field, its
\* NUL padding trimmed.  The text is kept as its UTF-8 bytes.
read_utf8_string(field, capacity) ==
    SubSeq(field, 1, TrimmedLen(SubSeq(field, 1, capacity)))

\* the outcome of a decoder call: the panic message (or "ok"), the reader's
\* position after it, whether it failed inside a read_exact, the size of the
\* payload vector it allocated (-1: none), and the value decoded
Outcome(err, p, short, alloc, value) ==
    [err |-> err, pos |-> p, short |-> short, alloc |-> alloc, value |-> value]

\* Header::from_reader on stream s at offset p
Header_from_reader(s, p) ==
    IF ~read_exact_ok(s, p, HEADER_SIZE)
    THEN Outcome("read error", p, TRUE, -1, NoHeader)
    ELSE
    LET buf == ReadBytes(s, p, HEADER_SIZE)
        id == read_utf8_string(SubSeq(buf, 1, 64), 64)
        app_id == read_utf8_string(SubSeq(buf, 65, 192), 128)
        app_name == read_utf8_string(SubSeq(buf, 193, 320), 128)
        version == read_i32(SubSeq(buf, 321, 324))
        num_recs == read_i32(SubSeq(buf, 325, 328))
        end_offset == read_u32(SubSeq(buf, 329, 332))
        flags == read_u32(SubSeq(buf, 333, 336))
        crc == read_u32(SubSeq(buf, 445, 448))
        actual_crc == crc32_sum(SubSeq(buf, 1, HEADER_SIZE - 4))
        after == p + HEADER_SIZE
    IN  IF actual_crc # crc
        THEN Outcome("header crc32 check failed", after, FALSE, -1, NoHeader)
        ELSE IF id # HEADER_ID_32 /\ id # HEADER_ID_64
        THEN Outcome("header id not valid", after, FALSE, -1, NoHeader)
        ELSE IF version > HIGHEST_SUPPORTED_VERSION
        THEN Outcome("header version not supported", after, FALSE, -1, NoHeader)
        ELSE Outcome("ok", after, FALSE, -1,
                     << [id |-> id, app_id |-> app_id, app_name |-> app_name,
                         version |-> version, num_recs |-> num_recs,
                         end_offset |-> end_offset, flags |-> flags,
                         crc |-> crc] >>)

---------------------------------------------------------------------------
(* FILE REC                                                                *)

\* the payload ceiling of FileRec::from_reader, 0x8000000
DATA_SIZE_CEILING == 134217728

Unrecognized == "unrecognized"

\* UninstallRecTyp::from(i): the variant of a u16, or the panic of the `_` arm
UninstallRecTyp_from(i) ==
    CASE i = 1 -> "UserDefined"
      [] i = 16 -> "StartInstall"
      [] i = 17 -> "EndInstall"
      [] i = 32 -> "CompiledCode"
      [] i = 128 -> "Run"
      [] i = 129 -> "DeleteDirOrFiles"
      [] i = 130 -> "DeleteFile"
      [] i = 131 -> "DeleteGroupOrItem"
      [] i = 132 -> "IniDeleteEntry"
      [] i = 133 -> "IniDeleteSection"
      [] i = 134 -> "RegDeleteEntireKey"
      [] i = 135 -> "RegClearValue"
      [] i = 136 -> "RegDeleteKeyIfEmpty"
      [] i = 137 -> "RegDeleteValue"
      [] i = 138 -> "DecrementSharedCount"
      [] i = 139 -> "RefreshFileAssoc"
      [] i = 140 -> "MutexCheck"
      [] OTHER -> Unrecognized

NoRec == << >>

\* mutant: `>=` for `>`, the ceiling itself is rejected
data_size_too_large_Inclusive(data_size) ==
    ~U32Gt(U32(DATA_SIZE_CEILING \div 65536, DATA_SIZE_CEILING % 65536), data_size)

\* `data_size > 0x8000000`, on the u32 read from the stream
data_size_too_large(data_size) ==
    U32Gt(data_size, U32(DATA_SIZE_CEILING \div 65536, DATA_SIZE_CEILING % 65536))

\* mutant: the type tag is mapped as soon as it is read
FileRec_from_reader_TypFirst(s, p) ==
    IF ~read_exact_ok(s, p, 2)
    THEN Outcome("file rec typ", p, TRUE, -1, NoRec)
    ELSE IF UninstallRecTyp_from(read_u16(ReadBytes(s, p, 2))) = Unrecognized
    THEN Outcome("unrecognized typ", p + 2, FALSE, -1, NoRec)
    ELSE IF ~read_exact_ok(s, p + 2, 4)
    THEN Outcome("file rec extra data", p + 2, TRUE, -1, NoRec)
    ELSE IF ~read_exact_ok(s, p + 6, 4)
    THEN Outcome("file rec data size", p + 6, TRUE, -1, NoRec)
    ELSE
    LET typ == read_u16(ReadBytes(s, p, 2))
        extra_data == read_u32(ReadBytes(s, p + 2, 4))
        data_size == read_u32(ReadBytes(s, p + 6, 4))
    IN  IF data_size_too_large(data_size)
        THEN Outcome("file rec data size too large", p + 10, FALSE, -1, NoRec)
        ELSE
        LET n == U32ToInt(data_size)
        IN  IF ~read_exact_ok(s, p + 10, n)
            THEN Outcome("file rec data", p + 10, TRUE, n, NoRec)
            ELSE Outcome("ok", p + 10 + n, FALSE, n,
                         << [typ |-> UninstallRecTyp_from(typ),
                             extra_data |-> extra_data,
                             data |-> [len |-> n, at |-> p + 10]] >>)

\* FileRec::from_reader on stream s at offset p.  The payload is kept as the
\* slice of the stream it was copied from, [len, at]: the decoder never looks
\* into it.
FileRec_from_reader(s, p) ==
    IF ~read_exact_ok(s, p, 2)
    THEN Outcome("file rec typ", p, TRUE, -1, NoRec)
    ELSE IF ~read_exact_ok(s, p + 2, 4)
    THEN Outcome("file rec extra data", p + 2, TRUE, -1, NoRec)
    ELSE IF ~read_exact_ok(s, p + 6, 4)
    THEN Outcome("file rec data size", p + 6, TRUE, -1, NoRec)
    ELSE
    LET typ == read_u16(ReadBytes(s, p, 2))
        extra_data == read_u32(ReadBytes(s, p + 2, 4))
        data_size == read_u32(ReadBytes(s, p + 6, 4))
    IN  IF data_size_too_large(data_size)
        THEN Outcome("file rec data size too large", p + 10, FALSE, -1, NoRec)
        ELSE
        LET n == U32ToInt(data_size)
        IN  IF ~read_exact_ok(s, p + 10, n)
            THEN Outcome("file rec data", p + 10, TRUE, n, NoRec)
            ELSE IF UninstallRecTyp_from(typ) = Unrecognized
            THEN Outcome("unrecognized typ", p + 10 + n, FALSE, n, NoRec)
            ELSE Outcome("ok", p + 10 + n, FALSE, n,
                         << [typ |-> UninstallRecTyp_from(typ),
                             extra_data |-> extra_data,
                             data |-> [len |-> n, at |-> p + 10]] >>)

---------------------------------------------------------------------------
(* Text.  A String or &str is its UTF-8 bytes, as in Rust; a char is its   *)
(* code point.                                                             *)

\* the UTF-8 bytes of one char
utf8_char(cp) ==
    IF cp < 128 THEN << cp >>
    ELSE IF cp < 2048 THEN << 192 + (cp \div 64), 128 + (cp % 64) >>
    ELSE IF cp < 65536
    THEN << 224 + (cp \div 4096), 128 + ((cp \div 64) % 64), 128 + (cp % 64) >>
    ELSE << 240 + (cp \div 262144), 128 + ((cp \div 4096) % 64),
            128 + ((cp \div 64) % 64), 128 + (cp % 64) >>

\* the String made of the chars cps
RECURSIVE utf8_of(_)
utf8_of(cps) ==
    IF cps = << >> THEN << >> ELSE utf8_char(Head(cps)) \o utf8_of(Tail(cps))

\* the number of bytes of the UTF-8 sequence that starts with byte b
utf8_width(b) == IF b < 128 THEN 1 ELSE IF b < 224 THEN 2 ELSE IF b < 240 THEN 3 ELSE 4

\* str::chars: the chars of a (valid) UTF-8 string
RECURSIVE chars(_)
chars(str) ==
    IF str = << >> THEN << >>
    ELSE LET w == utf8_width(str[1])
             cp == CASE w = 1 -> str[1]
                     [] w = 2 -> (str[1] - 192) * 64 + (str[2] - 128)
                     [] w = 3 -> (str[1] - 224) * 4096 + (str[2] - 128) * 64
                                   + (str[3] - 128)
                     [] OTHER -> (str[1] - 240) * 262144 + (str[2] - 128) * 4096
                                   + (str[3] - 128) * 64 + (str[4] - 128)
         IN  << cp >> \o chars(SubSeq(str, w + 1, Len(str)))

\* the UTF-16 code units of one char
encode_utf16_char(cp) ==
    IF cp < 65536 THEN << cp >>
    ELSE << 55296 + ((cp - 65536) \div 1024), 56320 + ((cp - 65536) % 1024) >>

RECURSIVE encode_utf16_chars(_)
encode_utf16_chars(cps) ==
    IF cps = << >> THEN << >>
    ELSE encode_utf16_char(Head(cps)) \o encode_utf16_chars(Tail(cps))

\* mutant: a char beyond the BMP is cut to one code unit
encode_utf16_Truncating(str) == [i \in 1..Len(chars(str)) |-> chars(str)[i] % 65536]

\* str::encode_utf16().collect()
encode_utf16(str) == encode_utf16_chars(chars(str))

\* what decode_utf16 yields for an unpaired surrogate
BadChar == -1

\* char::decode_utf16: the chars of a code unit sequence, BadChar for each
\* unpaired surrogate
RECURSIVE decode_utf16(_)
decode_utf16(u) ==
    IF u = << >> THEN << >>
    ELSE IF u[1] < 55296 \/ u[1] > 57343
    THEN << u[1] >> \o decode_utf16(Tail(u))
    ELSE IF u[1] <= 56319 /\ Len(u) >= 2 /\ u[2] >= 56320 /\ u[2] <= 57343
    THEN << 65536 + (u[1] - 55296) * 1024 + (u[2] - 56320) >>
             \o decode_utf16(SubSeq(u, 3, Len(u)))
    ELSE << BadChar >> \o decode_utf16(Tail(u))

\* String::from_utf16: [ok, text]
from_utf16(u) ==
    LET cps == decode_utf16(u)
    IN  IF \E i \in 1..Len(cps) : cps[i] = BadChar
        THEN [ok |-> FALSE, text |-> << >>]
        ELSE [ok |-> TRUE, text |-> utf8_of(cps)]

\* LittleEndian::read_u16_into: the code units of an even number of bytes
read_u16_into(b) == [i \in 1..(Len(b) \div 2) |-> b[2 * i - 1] + 256 * b[2 * i]]

\* LittleEndian::write_u16_into: the bytes of a code unit sequence
write_u16_into(u) ==
    [i \in 1..(2 * Len(u)) |->
        IF i % 2 = 1 THEN u[(i + 1) \div 2] % 256 ELSE u[i \div 2] \div 256]

\* str::starts_with(&str): a prefix match on the bytes
starts_with(path, from) ==
    Len(from) <= Len(path) /\ SubSeq(path, 1, Len(from)) = from

---------------------------------------------------------------------------
(* The embedded-string codec.                                              *)

I32_MIN == -2147483647 - 1

\* mutant: the last byte of the payload is not checked
framing_error_NoLastCheck(d) ==
    IF Len(d) < 1 THEN "file rec data first byte"
    ELSE IF d[1] # 254 THEN "assertion failed: first == 0xfe"
    ELSE IF Len(d) < 5 THEN "file rec data size"
    ELSE IF read_i32(SubSeq(d, 2, 5)) >= 0 THEN "assertion failed: size < 0"
    ELSE IF read_i32(SubSeq(d, 2, 5)) = I32_MIN THEN "attempt to negate with overflow"
    ELSE IF (-read_i32(SubSeq(d, 2, 5))) % 2 # 0
    THEN "assertion failed: old_size % 2 == 0"
    ELSE "ok"

\* The reads and assertions of get_string up to `old_size % 2 == 0`, in the
\* order of the code: the panic message, or "ok".  `-size` of i32::MIN
\* panics in a debug build; in a release build it wraps and the allocation of
\* old_size / 2 code units fails: a panic either way.
framing_error(d) ==
    IF Len(d) < 1 THEN "file rec data first byte"
    ELSE IF d[1] # 254 THEN "assertion failed: first == 0xfe"
    ELSE IF Len(d) < 5 THEN "file rec data size"
    ELSE IF read_i32(SubSeq(d, 2, 5)) >= 0 THEN "assertion failed: size < 0"
    ELSE IF d[Len(d)] # 255 THEN "assertion failed: last == 0xff"
    ELSE IF read_i32(SubSeq(d, 2, 5)) = I32_MIN THEN "attempt to negate with overflow"
    ELSE IF (-read_i32(SubSeq(d, 2, 5))) % 2 # 0
    THEN "assertion failed: old_size % 2 == 0"
    ELSE "ok"

\* FileRec::get_string on the payload d: [err, text, old_size]
get_string(d) ==
    IF framing_error(d) # "ok"
    THEN [err |-> framing_error(d), text |-> << >>, old_size |-> 0]
    ELSE
    LET old_size == -read_i32(SubSeq(d, 2, 5))
    IN  IF 5 + old_size > Len(d)
        THEN [err |-> "range end index out of range", text |-> << >>, old_size |-> 0]
        ELSE
        LET str == from_utf16(read_u16_into(SubSeq(d, 6, 5 + old_size)))
        IN  IF ~str.ok
            THEN [err |-> "file rec data string", text |-> << >>, old_size |-> 0]
            ELSE [err |-> "ok", text |-> str.text, old_size |-> old_size]

\* mutant: the prefix is replaced whether or not the path starts with it
replace_prefix_Unguarded(path, from, to) ==
    to \o SubSeq(path, Len(from) + 1, Len(path))

\* rebase, lines 225..227: the path with its prefix `from` replaced by `to`
replace_prefix(path, from, to) ==
    IF starts_with(path, from)
    THEN to \o SubSeq(path, Len(from) + 1, Len(path))
    ELSE path

\* mutant: the rest of the old payload is not copied, the buffer stays zeroed
splice_RestNotCopied(d, old_size, u16data) ==
    << 254 >> \o write_i32(-(2 * Len(u16data))) \o write_u16_into(u16data)
        \o [i \in 1..(Len(d) - old_size - 5) |-> 0]

\* rebase, lines 230..252: the new payload, built in a zeroed buffer of
\* d.len() - old_size + new_size bytes: 0xfe, -new_size, the code units, and
\* the old payload from 5 + old_size on
splice(d, old_size, u16data) ==
    LET new_size == 2 * Len(u16data)
        old_rest == SubSeq(d, 5 + old_size + 1, Len(d))
    IN  << 254 >> \o write_i32(-new_size) \o write_u16_into(u16data) \o old_rest

\* FileRec::rebase on the payload d: [err, data], data being self.data after
\* the call (a panic leaves it as it was)
rebase(d, from, to) ==
    LET got == get_string(d)
    IN  IF got.err # "ok" THEN [err |-> got.err, data |-> d]
        ELSE [err |-> "ok",
              data |-> splice(d, got.old_size,
                              encode_utf16(replace_prefix(got.text, from, to)))]

---------------------------------------------------------------------------
(* Inputs: the log files the decoders are run on.                          *)

\* the most records a generated log holds
MaxRecs == 2

Zeros(n) == [i \in 1..n |-> 0]

\* a text field of n bytes: the text, NUL padded
Pad(text, n) == text \o Zeros(n - Len(text))

\* the 2 bytes of a u16
write_u16(n) == << n % 256, n \div 256 >>

\* the first 444 bytes of a header block (everything but the crc): "App" as
\* app id, "My App" as app name, 2 records, end offset 0x1C8, flags 0x25
HeaderFields(id, version) ==
    Pad(id, 64) \o Pad(<< 65, 112, 112 >>, 128)
        \o Pad(<< 77, 121, 32, 65, 112, 112 >>, 128)
        \o write_i32(version) \o write_i32(2) \o write_u32(U32(0, 456))
        \o write_u32(U32(0, 37)) \o Zeros(108)

\* the crc field a generated header carries: the right one, the right one
\* with its lowest bit flipped, or zero
CrcField(fields, mode) ==
    CASE mode = "good" -> write_u32(crc32_sum(fields))
      [] mode = "flipped" -> write_u32(Xor32(crc32_sum(fields), U32(0, 1)))
      [] OTHER -> << 0, 0, 0, 0 >>

HeaderBlock(id, version, mode) ==
    LET fields == HeaderFields(id, version) IN fields \o CrcField(fields, mode)

\* ids: the two magic strings, "Inno Setup Uninstall Log (a)", the 64-bit id
\* short of its last letter, and the empty string
HeaderIdInputs ==
    { HEADER_ID_32, HEADER_ID_64,
      SubSeq(HEADER_ID_32, 1, 26) \o << 97, 41 >>,
      SubSeq(HEADER_ID_64, 1, 34),
      << >> }

\* versions: around the highest supported one, a negative one, and one that
\* agrees with 1048 on its low 16 bits
HeaderVersionInputs == { -1, 0, 1048, 1049, 66584 }

\* a block of 448 bytes, cut to `cut` bytes or followed by two more
CutBlock(block, cut) ==
    IF cut <= Len(block) THEN SubSeq(block, 1, cut) ELSE block \o << 1, 0 >>

HeaderStreamInputs ==
    { StreamOf(CutBlock(HeaderBlock(id, v, mode), cut)) :
        id \in HeaderIdInputs, v \in HeaderVersionInputs,
        mode \in {"good", "flipped", "zero"}, cut \in {0, 447, 448, 450} }

\* record fields: the last known type tag (0x8C), the first unknown one (0x8D),
\* and 0x0101, whose low byte alone is a known tag
RecTypInputs == { 140, 141, 257 }

\* declared payload size and the payload bytes the file really holds: a small
\* payload, a small payload cut short, a payload of exactly 0x8000000 bytes,
\* one of 0x8000001 bytes, and a declared size of 0x80000003 (negative as an i32)
RecSizeInputs ==
    { [size |-> U32(0, 3), have |-> 3],
      [size |-> U32(0, 3), have |-> 2],
      [size |-> U32(2048, 0), have |-> DATA_SIZE_CEILING],
      [size |-> U32(2048, 1), have |-> DATA_SIZE_CEILING + 1],
      [size |-> U32(32768, 3), have |-> 3] }

RecInputs ==
    { [typ |-> t, extra |-> U32(258, 772), size |-> z.size, have |-> z.have] :
        t \in RecTypInputs, z \in RecSizeInputs }

\* the 10 bytes a record starts with: typ:u16, extra_data:u32, data_size:u32
RecHead(r) == write_u16(r.typ) \o write_u32(r.extra) \o write_u32(r.size)

\* the offset at which the k-th record of rs starts in the generated file
RECURSIVE RecOffset(_, _)
RecOffset(rs, k) ==
    IF k = 1 THEN HEADER_SIZE
    ELSE RecOffset(rs, k - 1) + 10 + rs[k - 1].have

\* the log file made of a header block and the records rs
LogStream(block, rs) ==
    LET n == Len(rs)
        heads == UNION { RecOffset(rs, k)..(RecOffset(rs, k) + 9) : k \in 1..n }
        owner(q) == CHOOSE k \in 1..n : q \in RecOffset(rs, k)..(RecOffset(rs, k) + 9)
    IN  [len |-> RecOffset(rs, n + 1),
         bytes |-> [q \in (0..(HEADER_SIZE - 1)) \cup heads |->
                      IF q < HEADER_SIZE THEN block[q + 1]
                      ELSE RecHead(rs[owner(q)])[q - RecOffset(rs, owner(q)) + 1]]]

\* sequences over S of length at most n
SeqsUpTo(S, n) == UNION { [1..k -> S] : k \in 0..n }

ValidHeaderBlock == HeaderBlock(HEADER_ID_64, HIGHEST_SUPPORTED_VERSION, "good")

LogStreamInputs ==
    { LogStream(ValidHeaderBlock, rs) : rs \in SeqsUpTo(RecInputs, MaxRecs) }

\* the most code units in the string of a generated payload
MaxUnits == 2

\* the most chars in a from or to prefix
MaxPrefix == 1

\* rebase is called on payloads of at most this many bytes
MaxData == 10

\* code units: "A", U+FF41 (high byte 0xFF), a high and a low surrogate
UnitInputs == { 65, 65345, 55296, 56320 }

\* chars of the prefixes: "A", U+FF41, U+10000 (two code units)
CharInputs == { 65, 65345, 65536 }

PrefixInputs == SeqsUpTo(CharInputs, MaxPrefix)

\* size fields for a string of n bytes: right, positive, odd, two bytes too
\* long, two bytes too short
SizeFieldInputs(n) == { -n, n, -(n + 1), -(n + 2), 2 - n }

\* what follows the string: the 0xFF sentinel, nothing, another field and the
\* sentinel, another field and no sentinel
TailInputs == { << 255 >>, << >>, << 7, 255 >>, << 7 >> }

\* the payloads with the code units u as string: every size field with every
\* tail behind the right first byte, and one payload with a wrong first byte
PayloadsOf(u) ==
    { << 254 >> \o write_i32(size) \o write_u16_into(u) \o tail :
        size \in SizeFieldInputs(2 * Len(u)), tail \in TailInputs }
      \cup { << 253 >> \o write_i32(-(2 * Len(u))) \o write_u16_into(u) \o << 255 >> }

PayloadInputs ==
    UNION { PayloadsOf(u) : u \in SeqsUpTo(UnitInputs, MaxUnits) }
      \cup { << >>, << 254 >>, << 254, 255 >> }

---------------------------------------------------------------------------
(* The decoding pass: the header once, then record after record.           *)

NoCall == [op |-> "none", err |-> "ok", start |-> 0, alloc |-> -1]

NoRebase == [from |-> << >>, to |-> << >>, before |-> << >>, err |-> "none"]

InitHeader ==
    /\ stream \in HeaderStreamInputs
    /\ pos = 0
    /\ phase = "start"
    /\ header = NoHeader
    /\ recs = << >>
    /\ last = NoCall
    /\ data = << >>
    /\ call = NoRebase

InitLog ==
    /\ stream \in LogStreamInputs
    /\ pos = 0
    /\ phase = "start"
    /\ header = NoHeader
    /\ recs = << >>
    /\ last = NoCall
    /\ data = << >>
    /\ call = NoRebase

\* the caller's Header::from_reader(&mut reader); a panic ends the program
ReadHeader ==
    /\ phase = "start"
    /\ \E r \in {Header_from_reader(stream, pos)} :
           /\ pos' \in (IF r.short THEN ShortReadPositions(stream, pos) ELSE {r.pos})
           /\ phase' = (IF r.err = "ok" THEN "recs" ELSE "panic")
           /\ header' = r.value
           /\ last' = [op |-> "header", err |-> r.err, start |-> pos, alloc |-> r.alloc]
    /\ UNCHANGED << stream, recs, data, call >>

\* the caller's FileRec::from_reader(&mut reader); a panic ends the program
ReadRec ==
    /\ phase = "recs"
    /\ \E r \in {FileRec_from_reader(stream, pos)} :
           /\ pos' \in (IF r.short THEN ShortReadPositions(stream, r.pos) ELSE {r.pos})
           /\ phase' = (IF r.err = "ok" THEN "recs" ELSE "panic")
           /\ recs' = recs \o r.value
           /\ last' = [op |-> "rec", err |-> r.err, start |-> pos, alloc |-> r.alloc]
    /\ UNCHANGED << stream, header, data, call >>

InitRebase ==
    /\ stream = StreamOf(<< >>)
    /\ pos = 0
    /\ phase = "rebase"
    /\ header = NoHeader
    /\ recs = << >>
    /\ last = NoCall
    /\ data \in PayloadInputs
    /\ call = NoRebase

\* the caller's rec.rebase(from, to), from and to being the strings of the
\* chars f and t; a panic ends the program
Rebase ==
    /\ phase = "rebase"
    /\ Len(data) <= MaxData
    /\ \E f \in PrefixInputs, t \in PrefixInputs :
         \E r \in {rebase(data, utf8_of(f), utf8_of(t))} :
            /\ data' = r.data
            /\ call' = [from |-> f, to |-> t, before |-> data, err |-> r.err]
            /\ phase' = (IF r.err = "ok" THEN "rebase" ELSE "panic")
    /\ UNCHANGED << stream, pos, header, recs, last >>

NextRebase == Rebase

SpecRebase == InitRebase /\ [][NextRebase]_vars

NextHeader == ReadHeader

NextLog == ReadHeader \/ ReadRec

SpecHeader == InitHeader /\ [][NextHeader]_vars

SpecLog == InitLog /\ [][NextLog]_vars

---------------------------------------------------------------------------
(* Properties of the decoding pass.  They read the file's bytes on their   *)
(* own, not through the decoders.                                          *)

\* the type tag stored at offset `at`
TypAt(at) == ByteAt(stream, at) + 256 * ByteAt(stream, at + 1)

\* the 17 known type codes
KnownTyps == {1, 16, 17, 32} \cup (128..140)

\* the four bytes of the data_size field of the record starting at `at`
SizeBytes(at) == ReadBytes(stream, at + 6, 4)

\* data_size <= 0x8000000, as an unsigned number
SizeWithinCeiling(at) ==
    SizeBytes(at)[4] < 8 \/ SizeBytes(at) = << 0, 0, 0, 8 >>

\* data_size as a number (for a size within the ceiling)
SizeValue(at) ==
    SizeBytes(at)[1] + 256 * SizeBytes(at)[2] + 65536 * SizeBytes(at)[3]
        + 16777216 * SizeBytes(at)[4]

\* the sum of (k + data.len) over the records rs
RECURSIVE Consumed(_, _)
Consumed(rs, k) ==
    IF rs = << >> THEN 0 ELSE k + Head(rs).data.len + Consumed(Tail(rs), k)

C6_Original ==
    /\ (last.op = "rec" /\ last.err = "ok") =>
          pos - last.start = 6 + recs[Len(recs)].data.len
    /\ phase = "recs" => pos = 448 + Consumed(recs, 6)

\* C6 amended: a successful record decode consumes 10 + data_size bytes
\* (typ:u16, extra_data:u32, data_size:u32, payload), data_size being the
\* unsigned 32-bit field at offset 6 of the record; after the header and k
\* records the position is 448 + the sum of (10 + data_size_i).
C6_RecordConsumes10PlusSize ==
    /\ (last.op = "rec" /\ last.err = "ok") =>
          /\ SizeWithinCeiling(last.start)
          /\ recs[Len(recs)].data.len = SizeValue(last.start)
          /\ recs[Len(recs)].data.at = last.start + 10
          /\ pos - last.start = 10 + SizeValue(last.start)
    /\ phase = "recs" => pos = 448 + Consumed(recs, 10)

\* two records have been decoded, the first with a payload of 2^27 bytes
C6_Witness ==
    /\ phase = "recs"
    /\ Len(recs) = 2
    /\ recs[1].data.len = 134217728
    /\ recs[2].data.len = 3

\* C7: a record whose data_size exceeds 0x8000000 is rejected with nothing
\* allocated and the reader just past the 10 bytes of typ, extra_data and
\* data_size; a record of a known type whose data_size is exactly 0x8000000
\* and whose payload is all there is accepted, with a buffer of that length.
C7_CeilingBeforePayload ==
    (last.op = "rec" /\ stream.len - last.start >= 10) =>
        /\ ~SizeWithinCeiling(last.start) =>
              /\ last.err = "file rec data size too large"
              /\ last.alloc = -1
              /\ pos = last.start + 10
        /\ ( /\ SizeBytes(last.start) = << 0, 0, 0, 8 >>
             /\ TypAt(last.start) \in KnownTyps
             /\ stream.len - (last.start + 10) >= 134217728 ) =>
              /\ last.err = "ok"
              /\ last.alloc = 134217728
              /\ recs[Len(recs)].data.len = 134217728

\* a record of exactly 0x8000000 bytes was accepted and the next one, of
\* 0x8000001 bytes, rejected
C7_Witness ==
    /\ last.op = "rec"
    /\ last.err = "file rec data size too large"
    /\ SizeBytes(last.start) = << 1, 0, 0, 8 >>
    /\ Len(recs) = 1
    /\ recs[1].data.len = 134217728

\* C9 as stated: an unrecognized type tag is rejected as soon as it is read,
\* with the unrecognized-type error and only the 2 bytes of the tag consumed,
\* whatever data_size and the payload are.
C9_Original ==
    ( /\ last.op = "rec"
      /\ stream.len - last.start >= 2
      /\ TypAt(last.start) \notin KnownTyps ) =>
        /\ last.err = "unrecognized typ"
        /\ pos = last.start + 2

\* C9 amended: the type tag is mapped last.  For a record whose 10 leading
\* bytes are there and whose tag is unrecognized: an oversized data_size
\* fails with the size error, at start + 10 with nothing allocated; else a
\* short payload fails with the payload read error; else the decode fails
\* with the unrecognized-type error after the whole record, 10 + data_size
\* bytes, has been consumed.  No record is skipped: the pass stops there.
C9_TypMappedLast ==
    ( /\ last.op = "rec"
      /\ stream.len - last.start >= 10
      /\ TypAt(last.start) \notin KnownTyps ) =>
        /\ phase = "panic"
        /\ IF ~SizeWithinCeiling(last.start)
           THEN /\ last.err = "file rec data size too large"
                /\ pos = last.start + 10
                /\ last.alloc = -1
           ELSE IF stream.len - (last.start + 10) < SizeValue(last.start)
           THEN /\ last.err = "file rec data"
                /\ last.alloc = SizeValue(last.start)
           ELSE /\ last.err = "unrecognized typ"
                /\ pos = last.start + 10 + SizeValue(last.start)
                /\ last.alloc = SizeValue(last.start)

\* a record with an unrecognized tag and an oversized data_size has failed
\* with the size error
C9_Witness ==
    /\ last.op = "rec"
    /\ stream.len - last.start >= 10
    /\ TypAt(last.start) \notin KnownTyps
    /\ ~SizeWithinCeiling(last.start)
    /\ last.err = "file rec data size too large"

---------------------------------------------------------------------------
(* Properties of rebase.  They read the payload before and after the call  *)
(* on their own, by chars and code units, not through get_string.          *)

\* the size field of the payload b (for Len(b) >= 5)
SizeField(b) == read_i32(SubSeq(b, 2, 5))

\* the code units the size field of b declares
DeclaredUnits(b) == read_u16_into(SubSeq(b, 6, 5 - SizeField(b)))

\* the payload b is one the string decoder accepts
WellFormed(b) ==
    /\ Len(b) >= 5
    /\ b[1] = 254
    /\ b[Len(b)] = 255
    /\ SizeField(b) < 0
    /\ SizeField(b) % 2 = 0
    /\ 5 - SizeField(b) <= Len(b)
    /\ \A i \in 1..Len(decode_utf16(DeclaredUnits(b))) :
          decode_utf16(DeclaredUnits(b))[i] # BadChar

\* the chars of the text of a well-formed payload
TextOf(b) == decode_utf16(DeclaredUnits(b))

\* the chars p are a prefix of the chars t
IsPrefix(p, t) == Len(p) <= Len(t) /\ \A i \in 1..Len(p) : p[i] = t[i]

\* the number of UTF-16 code units of the chars cps
RECURSIVE len_utf16(_)
len_utf16(cps) ==
    IF cps = << >> THEN 0
    ELSE (IF Head(cps) >= 65536 THEN 2 ELSE 1) + len_utf16(Tail(cps))

\* the text a matching call leaves: to, then the old text behind from
Substituted(b, from, to) ==
    to \o SubSeq(TextOf(b), Len(from) + 1, Len(TextOf(b)))

\* a rebase call on a well-formed payload whose text starts with from
MatchingCall ==
    /\ call.err # "none"
    /\ WellFormed(call.before)
    /\ IsPrefix(call.from, TextOf(call.before))

\* C1: after rebase of a well-formed payload whose text starts with from, the
\* payload is 0xFE, the little-endian i32 -(new byte length), the UTF-16LE
\* code units of to followed by the rest of the old text, and then the bytes
\* of the old payload from offset 5 + old byte length on, unchanged and in
\* order, from offset 5 + new byte length on.
C1_RebasedPayload ==
    MatchingCall =>
        LET before == call.before
            old == -SizeField(before)
            units == encode_utf16_chars(Substituted(before, call.from, call.to))
            new == 2 * Len(units)
        IN  /\ call.err = "ok"
            /\ Len(data) = 5 + new + (Len(before) - 5 - old)
            /\ data[1] = 254
            /\ SubSeq(data, 2, 5) = write_i32(-new)
            /\ \A k \in 1..Len(units) :
                  /\ data[5 + 2 * k - 1] = units[k] % 256
                  /\ data[5 + 2 * k] = units[k] \div 256
            /\ \A i \in (5 + old + 1)..Len(before) : data[i - old + new] = before[i]

\* a matching call has replaced a prefix by a longer one in a payload with two
\* bytes behind the string
C1_Witness ==
    /\ MatchingCall
    /\ call.err = "ok"
    /\ call.from # << >>
    /\ len_utf16(call.to) > len_utf16(call.from)
    /\ Len(call.before) + SizeField(call.before) - 5 = 2
    /\ data # call.before

\* C2: rebase of a well-formed payload whose text does not start with from
\* leaves the payload byte for byte as it was, whatever to is.
C2_MismatchIsNoOp ==
    ( /\ call.err # "none"
      /\ WellFormed(call.before)
      /\ ~IsPrefix(call.from, TextOf(call.before)) ) =>
        /\ call.err = "ok"
        /\ data = call.before

\* a call whose from is not a prefix of the text, with a non-empty to
C2_Witness ==
    /\ call.err = "ok"
    /\ WellFormed(call.before)
    /\ ~IsPrefix(call.from, TextOf(call.before))
    /\ call.to # << >>
    /\ call.to # call.from

\* the framing faults of C3, on a payload that has the bytes in question
BadFraming(b) ==
    /\ Len(b) >= 1
    /\ \/ b[1] # 254
       \/ b[Len(b)] # 255
       \/ Len(b) >= 5 /\ SizeField(b) >= 0
       \/ Len(b) >= 5 /\ SizeField(b) % 2 # 0

\* C3: rebase of a payload whose first byte is not 0xFE, whose last byte is not
\* 0xFF, whose size field is non-negative or whose size magnitude is odd
\* panics, and the record's data is what it was; so it is after any panic.
C3_MalformedRejected ==
    /\ (call.err # "none" /\ BadFraming(call.before)) =>
          /\ call.err # "ok"
          /\ phase = "panic"
          /\ data = call.before
    /\ (call.err # "none" /\ call.err # "ok") => data = call.before

\* a payload with the right first byte and size field and a wrong last byte
\* has been rejected
C3_Witness ==
    /\ call.err = "assertion failed: last == 0xff"
    /\ Len(call.before) >= 8
    /\ call.before[1] = 254
    /\ SizeField(call.before) = -2
    /\ data = call.before

\* C4: after a matching call the payload is 2 * (len_utf16(to) -
\* len_utf16(from)) bytes longer than before (shorter, if that is negative).
C4_LengthDelta ==
    MatchingCall =>
        /\ call.err = "ok"
        /\ Len(data) = Len(call.before)
                         + 2 * (len_utf16(call.to) - len_utf16(call.from))

\* a matching call has replaced a prefix of two code units by one of one
C4_Witness ==
    /\ MatchingCall
    /\ call.err = "ok"
    /\ len_utf16(call.from) = 2
    /\ len_utf16(call.to) = 1
    /\ Len(data) = Len(call.before) - 2

\* C8 as stated: in every payload a successful rebase stores, the size field
\* is strictly negative and its magnitude is even and is the byte length of
\* the UTF-16LE text at offset 5.
C8_SizeFieldNegative ==
    call.err = "ok" =>
        /\ SizeField(data) < 0
        /\ SizeField(data) % 2 = 0
        /\ -SizeField(data) =
              2 * len_utf16(IF IsPrefix(call.from, TextOf(call.before))
                            THEN Substituted(call.before, call.from, call.to)
                            ELSE TextOf(call.before))

\* C10 as stated, for the calls that leave a non-empty text: after a
\* successful rebase the last byte of the payload is 0xFF and the decoder
\* accepts the payload and returns the substituted text.
C10_StaysWellFormed ==
    LET text == IF IsPrefix(call.from, TextOf(call.before))
                THEN Substituted(call.before, call.from, call.to)
                ELSE TextOf(call.before)
    IN  (call.err = "ok" /\ text # << >>) =>
            /\ data[Len(data)] = 255
            /\ get_string(data).err = "ok"
            /\ get_string(data).text = utf8_of(text)

====
